---------------------------- MODULE Spec2Model ----------------------------
(***************************************************************************)
(* Multi-server MCP client (src/index_gemini_api.ts and                    *)
(* src/index_anthoropic_api.ts): main() loops over query cycles; each      *)
(* cycle runs selectServerScript (discovery over SERVER_CANDIDATES, one    *)
(* model call, parse and validation of the reply, closing of unselected    *)
(* backends), asks the user for confirmation, then runs                    *)
(* MCPClient.processQuery inside try/finally with MCPClient.cleanup.       *)
(*                                                                         *)
(* Texts exchanged with the language model and the terminal are sequences  *)
(* of tokens: each token stands for a substring that contains none of the  *)
(* other tokens.  The model, the backends and the user are the             *)
(* environment: their replies and failures are chosen with \E.             *)
(* Client.close() and transport.close() are taken to complete (the         *)
(* Backend Connection contract gives close no failure mode).               *)
(*                                                                         *)
(* Spec is the multi-server controller.  SingleSpec is the single-backend  *)
(* variant (src/unnamed/part_000, first program): one backend named on the *)
(* command line, connectToServer, chatLoop, cleanup in main's finally.     *)
(***************************************************************************)
EXTENDS Integers, Sequences, FiniteSets, TLC

\* ------------------------------------------------------------------ bounds
NumCandidates == 2
MaxCycles == 2
MaxBlocks == 2

\* ------------------------------------------------------------ configuration
AllPaths == <<"p1", "p2", "p3", "p4">>

\* SERVER_CANDIDATES: the configured, ordered list of backend locators.
SERVER_CANDIDATES == SubSeq(AllPaths, 1, NumCandidates)

\* What the backend at position i advertises when its listTools succeeds
\* (toolsResult.tools, in backend-reported order).
AdvertisedTools(i) == IF i % 2 = 1 THEN <<"ta", "tb">> ELSE <<"tb", "tc">>

ToolNames == {"ta", "tb", "tc"}

\* ------------------------------------------------------------- text helpers
IsSpace(t) == t \in {" ", "\n"}

RECURSIVE trimStart(_)
trimStart(s) ==
  IF s = <<>> THEN <<>>
  ELSE IF IsSpace(Head(s)) THEN trimStart(Tail(s))
  ELSE s

RECURSIVE trimEnd(_)
trimEnd(s) ==
  IF s = <<>> THEN <<>>
  ELSE IF IsSpace(s[Len(s)]) THEN trimEnd(SubSeq(s, 1, Len(s) - 1))
  ELSE s

\* String.prototype.trim
trim(s) == trimEnd(trimStart(s))

LowerOf(t) ==
  CASE t = "OK" -> "ok"
    [] t = "Ok" -> "ok"
    [] t = "NO" -> "no"
    [] t = "QUIT" -> "quit"
    [] t = "Quit" -> "quit"
    [] OTHER -> t

\* String.prototype.toLowerCase
toLowerCase(s) == [i \in 1..Len(s) |-> LowerOf(s[i])]

\* All sequences over S of length at most n.
RECURSIVE SeqsUpTo(_, _)
SeqsUpTo(S, n) ==
  IF n = 0 THEN {<<>>}
  ELSE LET shorter == SeqsUpTo(S, n - 1)
       IN  shorter \cup {Append(s, c) : s \in shorter, c \in S}

\* ------------------------------------------------- selection reply parsing
NoMatch == [ok |-> FALSE, g1 |-> <<>>, g2 |-> <<>>]

\* Positions <<i, j, k>> at which /path=(.*?),\s*name=(.*)/ can match s:
\* "path=" at i, "," at j with no line break in between (. excludes \n),
\* only white space between j and k, "name=" at k.
SelectionMatchPositions(s) ==
  {ijk \in (1..Len(s)) \X (1..Len(s)) \X (1..Len(s)) :
     /\ ijk[1] < ijk[2] /\ ijk[2] < ijk[3]
     /\ s[ijk[1]] = "path="
     /\ s[ijk[2]] = ","
     /\ \A m \in (ijk[1] + 1)..(ijk[2] - 1) : s[m] # "\n"
     /\ \A m \in (ijk[2] + 1)..(ijk[3] - 1) : IsSpace(s[m])
     /\ s[ijk[3]] = "name="}

\* Last position of the line that position k is on.
LineEnd(s, k) ==
  CHOOSE e \in k..Len(s) :
    /\ \A m \in (k + 1)..e : s[m] # "\n"
    /\ e = Len(s) \/ s[e + 1] = "\n"

\* llmText.match(/path=(.*?),\s*name=(.*)/): leftmost start, lazy first
\* group, greedy second group up to the end of the line.
matchSelection(s) ==
  LET P == SelectionMatchPositions(s)
  IN  IF P = {} THEN NoMatch
      ELSE LET i == CHOOSE x \in {q[1] : q \in P} : \A q \in P : x <= q[1]
               Pi == {q \in P : q[1] = i}
               j == CHOOSE x \in {q[2] : q \in Pi} : \A q \in Pi : x <= q[2]
               k == CHOOSE x \in {q[3] : q \in Pi} : <<i, j, x>> \in Pi
           IN  [ok |-> TRUE,
                g1 |-> SubSeq(s, i + 1, j - 1),
                g2 |-> SubSeq(s, k + 1, LineEnd(s, k))]

\* Replies the selection model call can produce: the requested
\* "path=<p>, name=<n>" line for every path and tool name, and variations of
\* the format.
ReplyPaths == {SERVER_CANDIDATES[i] : i \in 1..NumCandidates} \cup {"px"}
ReplyNames == ToolNames \cup {"tx"}

SelectionReplies ==
  {<<"path=", p, ",", " ", "name=", n>> : p \in ReplyPaths, n \in ReplyNames}
  \cup {<<"junk", " ", "path=", "p1", ",", "name=", "ta", "\n">>,
        <<"path=", " ", "p1", " ", ",", "\n", "name=", "tb", " ">>,
        <<"path=", "p1", ",", " ", "name=", "ta", "\n", "junk">>,
        <<"path=", "p1", ",", " ", "name=", "ta", " ", "junk">>,
        <<"path=", "p1", ",", "junk", ",", " ", "name=", "ta">>,
        <<"path=", "p1", " ", "name=", "ta">>,
        <<"path=", "p1", "\n", ",", "name=", "ta">>,
        <<"name=", "ta", ",", "path=", "p1">>,
        <<"junk">>,
        <<>>}

\* -------------------------------------------------------------------- state
VARIABLES
  variant,         \* "gemini" (prompt-derived calling) or "anthropic" (native)
  pc,              \* position of main()
  cycle,           \* number of the current iteration of main's while loop
  query,           \* the query read in this cycle
  idx,             \* position of selectServerScript's for loop
  attempts,        \* getServerTools calls of this selectServerScript run
  allServerInfos,  \* selectServerScript's allServerInfos
  conn,            \* this cycle's backend connections, by candidate position
  leaked,          \* connections of earlier cycles that are still open
  llmText,         \* the trimmed reply that was parsed last (llmText)
  serverInfo,      \* main's serverInfo (selectServerScript's return value)
  confirm,         \* the user's answer to the confirmation prompt
  calls,           \* tool names of the callTool requests issued in this cycle
  lastError,       \* the error thrown last in this cycle, "none" if none
  reported,        \* whether main printed lastError (console.error)
  blocks,          \* native mode: response.content still to be processed
  ended,           \* how this cycle ended, "none" while it is running
  allTools,        \* selectServerScript's allTools (the prompt's tool list)
  modelCalls,      \* the model requests issued in this cycle, in order
  response,        \* native mode: response.content of the first model call
  finalText,       \* native mode: processQuery's finalText
  answer,          \* the text processQuery returned in this cycle
  toolResult,      \* prompt-derived mode: resultTool.content as the backend returned it
  content,         \* prompt-derived mode: the normalized result in the answer prompt
  closeCalls,      \* clients that selectServerScript called close on, in order
  bestScore,       \* scoring variant: selectServerScript's bestScore
  message          \* chat-loop variants: the line chatLoop read last

vars == <<variant, pc, cycle, query, idx, attempts, allServerInfos, conn,
          leaked, llmText, serverInfo, confirm, calls, lastError, reported,
          blocks, ended,
          allTools,
          modelCalls,
          response,
          finalText,
          answer,
          toolResult,
          content,
          closeCalls,
          bestScore,
          message>>

Queries == {"q1", "quit"}

\* processQuery has no callTool result (yet).
NoResult == [kind |-> "none", items |-> <<>>, value |-> <<>>]

NoServerInfo == [path |-> "", tools |-> <<>>, client |-> 0, selectedTool |-> ""]

\* Connections of this cycle that are open.
OpenConns == {i \in 1..NumCandidates : conn[i] = "open"}

\* Every open backend connection of the process.
OpenCount == Cardinality(OpenConns) + leaked

Init ==
  /\ variant \in {"gemini", "anthropic"}
  /\ pc = "AwaitingQuery"
  /\ cycle = 0
  /\ query = ""
  /\ idx = 1
  /\ attempts = <<>>
  /\ allServerInfos = <<>>
  /\ conn = [i \in 1..NumCandidates |-> "none"]
  /\ leaked = 0
  /\ llmText = <<>>
  /\ serverInfo = NoServerInfo
  /\ confirm = <<>>
  /\ calls = <<>>
  /\ lastError = "none"
  /\ reported = FALSE
  /\ blocks = <<>>
  /\ ended = "none"
  /\ allTools = <<>>
  /\ modelCalls = <<>>
  /\ response = <<>>
  /\ finalText = <<>>
  /\ answer = <<>>
  /\ toolResult = NoResult
  /\ content = <<>>
  /\ closeCalls = <<>>
  /\ bestScore = 0 - 1
  /\ message = <<>>

\* main: const query = await rl.question(...) at the top of the while loop.
\* The previous iteration's clients are out of scope: those still open stay
\* open, and nothing refers to them any more.
ReadQuery ==
  /\ pc = "AwaitingQuery"
  /\ cycle < MaxCycles
  /\ \E q \in Queries : query' = q
  /\ cycle' = cycle + 1
  /\ pc' = "Discovering"
  /\ idx' = 1
  /\ attempts' = <<>>
  /\ allServerInfos' = <<>>
  /\ leaked' = leaked + Cardinality(OpenConns)
  /\ conn' = [i \in 1..NumCandidates |-> "none"]
  /\ llmText' = <<>>
  /\ serverInfo' = NoServerInfo
  /\ confirm' = <<>>
  /\ calls' = <<>>
  /\ lastError' = "none"
  /\ reported' = FALSE
  /\ blocks' = <<>>
  /\ ended' = "none"
  /\ UNCHANGED variant
  /\ allTools' = <<>>
  /\ modelCalls' = <<>>
  /\ response' = <<>>
  /\ finalText' = <<>>
  /\ answer' = <<>>
  /\ toolResult' = NoResult
  /\ content' = <<>>
  /\ closeCalls' = <<>>
  /\ bestScore' = 0 - 1
  /\ message' = <<>>

\* The extension of a locator: what endsWith(".js") and endsWith(".py") see.
\* The candidate list is edited by hand, so a locator of another kind can be
\* in it.
Extension(path) ==
  CASE path = "p1" -> ".js"
    [] path = "p2" -> ".txt"
    [] path = "p3" -> ".py"
    [] OTHER -> ".js"

\* const command = isPy ? "python3" : process.execPath (isJs is not used)
spawnCommand(path) ==
  IF Extension(path) = ".py" THEN "python3" ELSE "node"

\* getServerTools(path): client.connect(transport) spawns the process and may
\* fail (nothing stays open); client.listTools() may fail after the connect
\* succeeded (the client is dropped without being closed); otherwise the
\* tools and the open client are returned.
GetServerToolsOutcomes == {"connectFailed", "listToolsFailed", "ok"}

getServerTools(c, i, outcome) ==
  IF outcome = "connectFailed" THEN c ELSE [c EXCEPT ![i] = "open"]

\* for (const path of SERVER_CANDIDATES) try { push } catch { skip }:
\* what one iteration leaves in allServerInfos.
pushServerInfo(infos, i, outcome) ==
  IF outcome = "ok"
  THEN Append(infos, [path |-> SERVER_CANDIDATES[i],
                      tools |-> AdvertisedTools(i), client |-> i])
  ELSE infos

\* Discover with the loop left at the first candidate that fails (no
\* try/catch around the iteration's body).
Discover_breakOnFailure ==
  /\ pc = "Discovering"
  /\ idx <= NumCandidates
  /\ \E outcome \in GetServerToolsOutcomes :
       /\ conn' = getServerTools(conn, idx, outcome)
       /\ attempts' = Append(attempts, <<SERVER_CANDIDATES[idx], outcome>>)
       /\ allServerInfos' = pushServerInfo(allServerInfos, idx, outcome)
       /\ idx' = IF outcome = "ok" THEN idx + 1 ELSE NumCandidates + 1
  /\ UNCHANGED <<variant, pc, cycle, query, leaked, llmText, serverInfo,
                 confirm, calls, lastError, reported, blocks, ended>>
  /\ UNCHANGED allTools
  /\ UNCHANGED modelCalls
  /\ UNCHANGED response
  /\ UNCHANGED finalText
  /\ UNCHANGED answer
  /\ UNCHANGED toolResult
  /\ UNCHANGED content
  /\ UNCHANGED closeCalls
  /\ UNCHANGED bestScore
  /\ UNCHANGED message

\* One iteration of selectServerScript's for loop.
Discover ==
  /\ pc = "Discovering"
  /\ idx <= NumCandidates
  /\ \E outcome \in GetServerToolsOutcomes :
       /\ conn' = getServerTools(conn, idx, outcome)
       /\ attempts' = Append(attempts, <<SERVER_CANDIDATES[idx], outcome>>)
       /\ allServerInfos' = pushServerInfo(allServerInfos, idx, outcome)
  /\ idx' = idx + 1
  /\ UNCHANGED <<variant, pc, cycle, query, leaked, llmText, serverInfo,
                 confirm, calls, lastError, reported, blocks, ended>>
  /\ UNCHANGED allTools
  /\ UNCHANGED modelCalls
  /\ UNCHANGED response
  /\ UNCHANGED finalText
  /\ UNCHANGED answer
  /\ UNCHANGED toolResult
  /\ UNCHANGED content
  /\ UNCHANGED closeCalls
  /\ UNCHANGED bestScore
  /\ UNCHANGED message

\* ---------------------------------------------- selectServerScript, part 2
\* A mistaken flat list: one entry per tool name, the first backend that
\* advertises a name keeps it.
RECURSIVE flatMapTools_dedupeByName(_)
flatMapTools_dedupeByName(infos) ==
  IF infos = <<>> THEN <<>>
  ELSE LET front == flatMapTools_dedupeByName(SubSeq(infos, 1, Len(infos) - 1))
           info == infos[Len(infos)]
           fresh == SelectSeq(info.tools,
                      LAMBDA t : \A k \in 1..Len(front) : front[k][2] # t)
       IN front \o [t \in 1..Len(fresh) |-> <<info.path, fresh[t]>>]

\* allServerInfos.flatMap(info => info.tools.map(tool => ({path, name, ...}))):
\* the descriptors in order, each descriptor's tools in the order it holds them.
RECURSIVE flatMapTools(_)
flatMapTools(infos) ==
  IF infos = <<>> THEN <<>>
  ELSE LET info == Head(infos)
       IN [t \in 1..Len(info.tools) |-> <<info.path, info.tools[t]>>]
            \o flatMapTools(Tail(infos))

\* Positions of the descriptors whose path is the parsed path
\* (info.path === selectedPath).
ServersWithPath(infos, selectedPath) ==
  {n \in 1..Len(infos) : <<infos[n].path>> = selectedPath}

\* allServerInfos.find(info => info.path === selectedPath)
findServer(infos, selectedPath) ==
  LET S == ServersWithPath(infos, selectedPath)
  IN  infos[CHOOSE n \in S : \A m \in S : n <= m]

\* hasTool that accepts a name advertised by any backend.
hasTool_anyBackend(info, selectedName) ==
  \E t \in ToolNames : <<t>> = selectedName

\* selectedServer.tools.find(t => t.name === selectedName) finds a tool
hasTool(info, selectedName) ==
  \E t \in 1..Len(info.tools) : <<info.tools[t]>> = selectedName

\* selection that falls back to the first descriptor and its first tool when
\* the reply does not match the pattern.
selection_fallbackOnParseFailure(infos, text) ==
  LET m == matchSelection(text)
      selectedPath == trim(m.g1)
      selectedName == trim(m.g2)
  IN  IF ~m.ok
      THEN [error |-> "none",
            info |-> [path |-> infos[1].path, tools |-> infos[1].tools,
                      client |-> infos[1].client,
                      selectedTool |-> infos[1].tools[1]]]
      ELSE IF ServersWithPath(infos, selectedPath) = {}
      THEN [error |-> "UnknownBackend", info |-> NoServerInfo]
      ELSE IF ~hasTool(findServer(infos, selectedPath), selectedName)
      THEN [error |-> "UnknownTool", info |-> NoServerInfo]
      ELSE LET srv == findServer(infos, selectedPath)
           IN  [error |-> "none",
                info |-> [path |-> srv.path, tools |-> srv.tools,
                          client |-> srv.client,
                          selectedTool |-> selectedName[1]]]

\* Parse and validate the (trimmed) reply against the discovered descriptors:
\* the error that selectServerScript throws, or "none" and the selection.
selection(infos, text) ==
  LET m == matchSelection(text)
      selectedPath == trim(m.g1)
      selectedName == trim(m.g2)
  IN  IF ~m.ok
      THEN [error |-> "SelectionParse", info |-> NoServerInfo]
      ELSE IF ServersWithPath(infos, selectedPath) = {}
      THEN [error |-> "UnknownBackend", info |-> NoServerInfo]
      ELSE IF ~hasTool(findServer(infos, selectedPath), selectedName)
      THEN [error |-> "UnknownTool", info |-> NoServerInfo]
      ELSE LET srv == findServer(infos, selectedPath)
           IN  [error |-> "none",
                info |-> [path |-> srv.path, tools |-> srv.tools,
                          client |-> srv.client,
                          selectedTool |-> selectedName[1]]]

\* closeCallsOf that closes every descriptor, the selected one included.
closeCallsOf_everyDescriptor(infos, selectedPath) ==
  [k \in 1..Len(infos) |-> infos[k].client]

\* The clients on which the loop below calls close(), in the order of the
\* calls.
closeCallsOf(infos, selectedPath) ==
  LET unselected == SelectSeq(infos, LAMBDA info : info.path # selectedPath)
  IN  [k \in 1..Len(unselected) |-> unselected[k].client]

\* for (const info of allServerInfos) if (info.path !== selectedPath) close
closeUnselected(c, infos, selectedPath) ==
  [i \in 1..NumCandidates |->
     IF \E n \in 1..Len(infos) :
          infos[n].client = i /\ infos[n].path # selectedPath
     THEN "closed"
     ELSE c[i]]

\* CatchSelectionError without the try/catch around selectServerScript: the
\* error leaves main.
CatchSelectionError_uncaught(err) ==
  /\ lastError' = err
  /\ reported' = FALSE
  /\ pc' = "Terminated"
  /\ ended' = "threw"

\* main: catch (e) { console.error(e); continue; }
CatchSelectionError(err) ==
  /\ lastError' = err
  /\ reported' = TRUE
  /\ pc' = "AwaitingQuery"
  /\ ended' = "selectError"

\* if (allServerInfos.length === 0) throw new Error("No suitable MCP server found.")
SelectNoBackend ==
  /\ pc = "Discovering"
  /\ idx = NumCandidates + 1
  /\ allServerInfos = <<>>
  /\ CatchSelectionError("NoBackend")
  /\ UNCHANGED <<variant, cycle, query, idx, attempts, allServerInfos, conn,
                 leaked, llmText, serverInfo, confirm, calls, blocks>>
  /\ UNCHANGED allTools
  /\ UNCHANGED modelCalls
  /\ UNCHANGED response
  /\ UNCHANGED finalText
  /\ UNCHANGED answer
  /\ UNCHANGED toolResult
  /\ UNCHANGED content
  /\ UNCHANGED closeCalls
  /\ UNCHANGED bestScore
  /\ UNCHANGED message

\* SelectPrompt without the test of allServerInfos.length: the model is asked
\* even when no backend was discovered.
SelectPrompt_withoutBackendCheck ==
  /\ pc = "Discovering"
  /\ idx = NumCandidates + 1
  /\ pc' = "Selecting"
  /\ UNCHANGED <<variant, cycle, query, idx, attempts, allServerInfos, conn,
                 leaked, llmText, serverInfo, confirm, calls, lastError,
                 reported, blocks, ended>>
  /\ allTools' = flatMapTools(allServerInfos)
  /\ UNCHANGED modelCalls
  /\ UNCHANGED response
  /\ UNCHANGED finalText
  /\ UNCHANGED answer
  /\ UNCHANGED toolResult
  /\ UNCHANGED content
  /\ UNCHANGED closeCalls
  /\ UNCHANGED bestScore
  /\ UNCHANGED message

\* The discovery loop is over with at least one descriptor: the selection
\* model call is issued.
SelectPrompt ==
  /\ pc = "Discovering"
  /\ idx = NumCandidates + 1
  /\ allServerInfos # <<>>
  /\ pc' = "Selecting"
  /\ UNCHANGED <<variant, cycle, query, idx, attempts, allServerInfos, conn,
                 leaked, llmText, serverInfo, confirm, calls, lastError,
                 reported, blocks, ended>>
  /\ allTools' = flatMapTools(allServerInfos)
  /\ UNCHANGED modelCalls
  /\ UNCHANGED response
  /\ UNCHANGED finalText
  /\ UNCHANGED answer
  /\ UNCHANGED toolResult
  /\ UNCHANGED content
  /\ UNCHANGED closeCalls
  /\ UNCHANGED bestScore
  /\ UNCHANGED message

\* The selection model call (generateContent / messages.create) rejects.
SelectModelFails ==
  /\ pc = "Selecting"
  /\ CatchSelectionError("ModelCall")
  /\ UNCHANGED <<variant, cycle, query, idx, attempts, allServerInfos, conn,
                 leaked, llmText, serverInfo, confirm, calls, blocks>>
  /\ UNCHANGED allTools
  /\ modelCalls' = Append(modelCalls, "select")
  /\ UNCHANGED response
  /\ UNCHANGED finalText
  /\ UNCHANGED answer
  /\ UNCHANGED toolResult
  /\ UNCHANGED content
  /\ UNCHANGED closeCalls
  /\ UNCHANGED bestScore
  /\ UNCHANGED message

\* The selection model call returns a reply: parse, validate, close the
\* unselected clients, return to main.
SelectReply ==
  /\ pc = "Selecting"
  /\ \E reply \in SelectionReplies :
       LET text == trim(reply)
           r == selection(allServerInfos, text)
       IN  /\ llmText' = text
           /\ IF r.error # "none"
              THEN /\ CatchSelectionError(r.error)
                   /\ UNCHANGED <<conn, serverInfo, closeCalls>>
              ELSE /\ conn' = closeUnselected(conn, allServerInfos, r.info.path)
                   /\ closeCalls' = closeCallsOf(allServerInfos, r.info.path)
                   /\ serverInfo' = r.info
                   /\ pc' = "AwaitingConfirmation"
                   /\ UNCHANGED <<lastError, reported, ended>>
  /\ UNCHANGED <<variant, cycle, query, idx, attempts, allServerInfos,
                 leaked, confirm, calls, blocks>>
  /\ UNCHANGED allTools
  /\ modelCalls' = Append(modelCalls, "select")
  /\ UNCHANGED response
  /\ UNCHANGED finalText
  /\ UNCHANGED answer
  /\ UNCHANGED toolResult
  /\ UNCHANGED content
  /\ UNCHANGED bestScore
  /\ UNCHANGED message

\* ------------------------------------------------------------ confirmation
\* Answers the user can type at the confirmation prompt.
ConfirmInputs ==
  {<<"ok">>, <<"OK">>, <<" ", "Ok", "\n">>,
   <<"ok", "ok">>, <<"ok", " ", "no">>, <<"no">>, <<"yes">>, <<" ">>, <<>>}

\* isAffirmative with a prefix test instead of the equality.
isAffirmative_startsWith(input) ==
  /\ trim(input) # <<>>
  /\ toLowerCase(trim(input))[1] = "ok"

\* confirm.trim().toLowerCase() !== "ok" is false
isAffirmative(input) == toLowerCase(trim(input)) = <<"ok">>

\* main: the confirmation prompt; anything else than the affirmative
\* continues with the next iteration.  selectServerScript's locals are gone.
Confirm ==
  /\ pc = "AwaitingConfirmation"
  /\ \E input \in ConfirmInputs :
       /\ confirm' = input
       /\ IF isAffirmative(input)
          THEN /\ pc' = "Invoking"
               /\ UNCHANGED ended
          ELSE /\ pc' = "AwaitingQuery"
               /\ ended' = "declined"
  /\ attempts' = <<>>
  /\ allServerInfos' = <<>>
  /\ llmText' = <<>>
  /\ UNCHANGED <<variant, cycle, query, idx, conn, leaked, serverInfo, calls,
                 lastError, reported, blocks>>
  /\ allTools' = <<>>
  /\ UNCHANGED modelCalls
  /\ UNCHANGED response
  /\ UNCHANGED finalText
  /\ UNCHANGED answer
  /\ UNCHANGED toolResult
  /\ UNCHANGED content
  /\ UNCHANGED closeCalls
  /\ UNCHANGED bestScore
  /\ UNCHANGED message

\* ------------------------------------------------------------ processQuery
\* Positions <<i, j, k>> at which /name=(.*?),\s*args=(\{.*\})/ can match s:
\* "name=" at i, "," at j on the same line, only white space up to "args=" at
\* k, then "{" and a "}" later on that line.
ArgMatchPositions(s) ==
  {ijk \in (1..Len(s)) \X (1..Len(s)) \X (1..Len(s)) :
     /\ ijk[1] < ijk[2] /\ ijk[2] < ijk[3]
     /\ s[ijk[1]] = "name="
     /\ s[ijk[2]] = ","
     /\ \A m \in (ijk[1] + 1)..(ijk[2] - 1) : s[m] # "\n"
     /\ \A m \in (ijk[2] + 1)..(ijk[3] - 1) : IsSpace(s[m])
     /\ s[ijk[3]] = "args="
     /\ ijk[3] + 1 <= Len(s)
     /\ s[ijk[3] + 1] = "{"
     /\ \E e \in (ijk[3] + 2)..Len(s) :
          /\ s[e] = "}"
          /\ \A m \in (ijk[3] + 2)..e : s[m] # "\n"}

\* Position of the last "}" of the line after the "{" at position b.
LastBrace(s, b) ==
  LET E == {e \in (b + 1)..Len(s) :
              s[e] = "}" /\ \A m \in (b + 1)..e : s[m] # "\n"}
  IN  CHOOSE e \in E : \A f \in E : f <= e

\* llmText.match(/name=(.*?),\s*args=(\{.*\})/)
matchToolCall(s) ==
  LET P == ArgMatchPositions(s)
  IN  IF P = {} THEN NoMatch
      ELSE LET i == CHOOSE x \in {q[1] : q \in P} : \A q \in P : x <= q[1]
               Pi == {q \in P : q[1] = i}
               j == CHOOSE x \in {q[2] : q \in Pi} : \A q \in Pi : x <= q[2]
               k == CHOOSE x \in {q[3] : q \in Pi} : <<i, j, x>> \in Pi
           IN  [ok |-> TRUE,
                g1 |-> SubSeq(s, i + 1, j - 1),
                g2 |-> SubSeq(s, k + 1, LastBrace(s, k + 1))]

\* JSON.parse(match[2]) succeeds: "{", members "kv" separated by ",", "}";
\* white space between the tokens is insignificant.
IsJsonObject(blob) ==
  LET b == SelectSeq(blob, LAMBDA t : ~IsSpace(t))
      inner == SubSeq(b, 2, Len(b) - 1)
  IN  /\ Len(b) >= 2
      /\ b[1] = "{"
      /\ b[Len(b)] = "}"
      /\ \/ inner = <<>>
         \/ /\ Len(inner) % 2 = 1
            /\ \A m \in 1..Len(inner) :
                 inner[m] = (IF m % 2 = 1 THEN "kv" ELSE ",")

\* Replies of the argument-synthesis model call.
ArgReplies ==
  {<<"name=", n, ",", " ", "args=", "{", "kv", "}">> : n \in ReplyNames}
  \cup {<<"name=", "ta", ",", "args=", "{", "}", "\n">>,
        <<"junk", " ", "name=", "tb", ",", " ", "args=", "{", "kv", ",", " ", "kv", "}">>,
        <<"name=", "ta", ",", " ", "args=", "{", "bad", "}">>,
        <<"name=", "ta", ",", " ", "args=", "{", "kv", "}", " ", "}">>,
        <<"name=", "ta", ",", " ", "args=", "{", "kv">>,
        <<"name=", "ta", ",", " ", "args=", "kv">>,
        <<"name=", "ta", " ", "args=", "{", "kv", "}">>,
        <<"junk">>}

\* toolCall that hands the captured text to callTool without parsing it.
toolCall_unparsedArgs(text) ==
  LET m == matchToolCall(text)
  IN  IF ~m.ok THEN [error |-> "ArgumentSynthesis", name |-> <<>>]
      ELSE [error |-> "none", name |-> trim(m.g1)]

\* The error processQuery throws for a reply of the argument-synthesis call
\* ("none" if there is none), and the tool name it calls.
toolCall(text) ==
  LET m == matchToolCall(text)
      toolName == trim(m.g1)
  IN  IF ~m.ok THEN [error |-> "ArgumentSynthesis", name |-> <<>>]
      ELSE IF ~IsJsonObject(m.g2) THEN [error |-> "InvalidJson", name |-> <<>>]
      ELSE [error |-> "none", name |-> toolName]

\* MCPClient.cleanup: await this.mcp.close(); await this.transport.close?.()
cleanup(c, client) == [c EXCEPT ![client] = "closed"]

\* ThrowFromProcessQuery with cleanup after the call instead of in a finally
\* block: an error skips it.
ThrowFromProcessQuery_noFinally(err) ==
  /\ conn' = conn
  /\ lastError' = err
  /\ pc' = "Terminated"
  /\ ended' = "threw"

\* processQuery throws err: main's finally runs cleanup, nothing catches the
\* error, main's promise rejects and the loop is over.
ThrowFromProcessQuery(err) ==
  /\ conn' = cleanup(conn, serverInfo.client)
  /\ lastError' = err
  /\ pc' = "Terminated"
  /\ ended' = "threw"

\* processQuery returns: the answer is printed, finally runs cleanup, the
\* while loop starts over.
ReturnFromProcessQuery ==
  /\ conn' = cleanup(conn, serverInfo.client)
  /\ pc' = "AwaitingQuery"
  /\ ended' = "answered"
  /\ UNCHANGED lastError

\* The first model call of processQuery rejects.
InvokeModelFails ==
  /\ pc = "Invoking"
  /\ ThrowFromProcessQuery("ModelCall")
  /\ UNCHANGED <<variant, cycle, query, idx, attempts, allServerInfos, leaked,
                 llmText, serverInfo, confirm, calls, reported, blocks>>
  /\ UNCHANGED allTools
  /\ modelCalls' = Append(modelCalls, "invoke")
  /\ UNCHANGED response
  /\ UNCHANGED finalText
  /\ UNCHANGED answer
  /\ UNCHANGED toolResult
  /\ UNCHANGED content
  /\ UNCHANGED closeCalls
  /\ UNCHANGED bestScore
  /\ UNCHANGED message

\* Prompt-derived mode: the reply is parsed into a tool name and arguments
\* and callTool is issued.
GenerateArgs ==
  /\ pc = "Invoking"
  /\ variant = "gemini"
  /\ \E reply \in ArgReplies :
       LET r == toolCall(trim(reply))
       IN  /\ llmText' = trim(reply)
           /\ IF r.error # "none"
              THEN /\ ThrowFromProcessQuery(r.error)
                   /\ UNCHANGED calls
              ELSE /\ calls' = Append(calls, r.name)
                   /\ pc' = "CallTool"
                   /\ UNCHANGED <<conn, lastError, ended>>
  /\ UNCHANGED <<variant, cycle, query, idx, attempts, allServerInfos, leaked,
                 serverInfo, confirm, reported, blocks>>
  /\ UNCHANGED allTools
  /\ modelCalls' = Append(modelCalls, "invoke")
  /\ UNCHANGED response
  /\ UNCHANGED finalText
  /\ UNCHANGED answer
  /\ UNCHANGED toolResult
  /\ UNCHANGED content
  /\ UNCHANGED closeCalls
  /\ UNCHANGED bestScore
  /\ UNCHANGED message

\* Native mode: response.content is a sequence of text and tool_use blocks.
BlockTypes == {"text", "tool_use"}
ResponseContents == SeqsUpTo(BlockTypes, MaxBlocks)

\* Names a tool_use block can carry.
ToolUseNames == {<<serverInfo.selectedTool>>, <<"tx">>}

\* for (const content of response.content): text blocks are collected until
\* a tool_use block is met.
RECURSIVE skipText(_)
skipText(b) ==
  IF b = <<>> THEN <<>>
  ELSE IF Head(b) = "text" THEN skipText(Tail(b))
  ELSE b

\* The text of the block at position k of a response.
TextOf(k) == "t" \o ToString(k)

\* finalText after the text blocks at the front of b are pushed; b is the
\* rest of a response of n blocks.
RECURSIVE pushTexts(_, _, _)
pushTexts(ft, b, n) ==
  IF b = <<>> \/ Head(b) # "text" THEN ft
  ELSE pushTexts(Append(ft, <<TextOf(n - Len(b) + 1)>>), Tail(b), n)

\* join that drops every part but the last one.
join_lastOnly(parts, sep) ==
  IF parts = <<>> THEN <<>> ELSE parts[Len(parts)]

\* Array.prototype.join: the parts with sep between neighbours.
RECURSIVE join(_, _)
join(parts, sep) ==
  IF parts = <<>> THEN <<>>
  ELSE IF Len(parts) = 1 THEN parts[1]
  ELSE parts[1] \o sep \o join(Tail(parts), sep)

\* ("[answer]" stands for the heading of the returned answer text.)
\* What the answer model call returns: its text, and in native mode whether
\* the first block of the response is a text block.
AnswerTexts == {<<"a">>, <<" ", "a", "\n">>}
FirstBlockTypes == {"text", "tool_use"}

\* The for loop over the blocks b: it issues callTool for the next tool_use
\* block, or it ends and processQuery returns.
ContinueBlocks(b) ==
  IF skipText(b) = <<>>
  THEN /\ ReturnFromProcessQuery
       /\ blocks' = <<>>
       /\ UNCHANGED calls
  ELSE /\ \E name \in ToolUseNames : calls' = Append(calls, name)
       /\ blocks' = Tail(skipText(b))
       /\ pc' = "CallTool"
       /\ UNCHANGED <<conn, lastError, ended>>

\* Native mode: the first model call returns.
NativeResponse ==
  /\ pc = "Invoking"
  /\ variant = "anthropic"
  /\ \E blks \in ResponseContents :
       /\ ContinueBlocks(blks)
       /\ response' = blks
       /\ finalText' = pushTexts(<<>>, blks, Len(blks))
       /\ answer' = IF skipText(blks) = <<>>
                    THEN join(finalText', <<"\n">>)
                    ELSE answer
  /\ UNCHANGED <<variant, cycle, query, idx, attempts, allServerInfos, leaked,
                 llmText, serverInfo, confirm, reported>>
  /\ UNCHANGED allTools
  /\ modelCalls' = Append(modelCalls, "invoke")
  /\ UNCHANGED toolResult
  /\ UNCHANGED content
  /\ UNCHANGED closeCalls
  /\ UNCHANGED bestScore
  /\ UNCHANGED message

\* this.mcp.callTool rejects.
CallToolFails ==
  /\ pc = "CallTool"
  /\ ThrowFromProcessQuery("ToolInvocation")
  /\ UNCHANGED <<variant, cycle, query, idx, attempts, allServerInfos, leaked,
                 llmText, serverInfo, confirm, calls, reported, blocks>>
  /\ UNCHANGED allTools
  /\ UNCHANGED modelCalls
  /\ UNCHANGED response
  /\ UNCHANGED finalText
  /\ UNCHANGED answer
  /\ UNCHANGED toolResult
  /\ UNCHANGED content
  /\ UNCHANGED closeCalls
  /\ UNCHANGED bestScore
  /\ UNCHANGED message

\* ------------------------------------------------- result normalization
\* A text item {type: "text", text: <string>}.
TextItem(t) == [type |-> "text", isString |-> TRUE, text |-> t]

\* An item of another type, and an item of type text whose text is no string.
ImageItem == [type |-> "image", isString |-> FALSE, text |-> <<>>]
OddTextItem == [type |-> "text", isString |-> FALSE, text |-> <<>>]

\* resultTool.content: an array of items, a single object, or a string.
ArrayResult(items) == [kind |-> "array", items |-> items, value |-> <<>>]
ObjectResult == [kind |-> "object", items |-> <<>>, value |-> <<>>]
StringResult(v) == [kind |-> "string", items |-> <<>>, value |-> v]

\* Results a backend can return from callTool.
ToolResults ==
  {ArrayResult(<<TextItem(<<"A">>), TextItem(<<"B">>)>>),
   ArrayResult(<<TextItem(<<"A">>)>>),
   ArrayResult(<<TextItem(<<>>)>>),
   ArrayResult(<<TextItem(<<>>), TextItem(<<>>)>>),
   ArrayResult(<<TextItem(<<"A">>), TextItem(<<>>)>>),
   ArrayResult(<<ImageItem, TextItem(<<"A">>), ImageItem, TextItem(<<"B">>)>>),
   ArrayResult(<<ImageItem, TextItem(<<>>)>>),
   ArrayResult(<<ImageItem>>),
   ArrayResult(<<OddTextItem>>),
   ArrayResult(<<>>),
   ObjectResult,
   StringResult(<<"A">>),
   StringResult(<<>>)}

\* JSON.stringify(item, null, 2) of one item.
stringifyItem(item) ==
  <<"{", "type:", item.type>>
    \o (IF item.type = "text"
        THEN <<"text:">> \o (IF item.isString THEN <<"\"">> \o item.text \o <<"\"">>
                             ELSE <<"0">>)
        ELSE <<"data:">>)
    \o <<"}">>

\* JSON.stringify(content, null, 2) of an array or an object.
RECURSIVE stringifyItems(_)
stringifyItems(items) ==
  IF items = <<>> THEN <<>>
  ELSE IF Len(items) = 1 THEN stringifyItem(items[1])
  ELSE stringifyItem(items[1]) \o <<",">> \o stringifyItems(Tail(items))

stringify(result) ==
  IF result.kind = "array"
  THEN <<"[">> \o stringifyItems(result.items) \o <<"]">>
  ELSE <<"{", "}">>

\* content.filter(item => item.type === "text" && typeof item.text ===
\* "string").map(item => item.text)
textsOf(items) ==
  LET kept == SelectSeq(items, LAMBDA item : item.type = "text" /\ item.isString)
  IN  [k \in 1..Len(kept) |-> kept[k].text]

\* normalize that falls back to the serialization only when the array holds no
\* text item at all.
normalize_fallbackOnNoTextItem(result) ==
  IF result.kind = "array"
  THEN IF textsOf(result.items) # <<>>
       THEN join(textsOf(result.items), <<"\n\n">>)
       ELSE stringify(result)
  ELSE IF result.kind = "object" THEN stringify(result)
  ELSE result.value

\* The content that goes into the answer prompt: texts || JSON.stringify(...)
\* for an array (an empty string is falsy), JSON.stringify for an object, the
\* content itself otherwise.
normalize(result) ==
  IF result.kind = "array"
  THEN LET texts == join(textsOf(result.items), <<"\n\n">>)
       IN  IF texts # <<>> THEN texts ELSE stringify(result)
  ELSE IF result.kind = "object" THEN stringify(result)
  ELSE result.value

\* this.mcp.callTool returns a result: the answer model call is issued.
CallToolReturns ==
  /\ pc = "CallTool"
  /\ pc' = "Synthesizing"
  /\ IF variant = "gemini"
     THEN \E result \in ToolResults :
            /\ toolResult' = result
            /\ content' = normalize(result)
     ELSE UNCHANGED <<toolResult, content>>
  /\ finalText' = IF variant = "anthropic"
                   THEN Append(finalText,
                               <<"[Calling tool">> \o calls[Len(calls)] \o <<"]">>)
                   ELSE finalText
  /\ UNCHANGED <<variant, cycle, query, idx, attempts, allServerInfos, conn,
                 leaked, llmText, serverInfo, confirm, calls, lastError,
                 reported, blocks, ended>>
  /\ UNCHANGED allTools
  /\ UNCHANGED modelCalls
  /\ UNCHANGED response
  /\ UNCHANGED answer
  /\ UNCHANGED closeCalls
  /\ UNCHANGED bestScore
  /\ UNCHANGED message

\* The answer model call rejects.
SynthesizeFails ==
  /\ toolResult' = NoResult
  /\ content' = <<>>
  /\ pc = "Synthesizing"
  /\ ThrowFromProcessQuery("ModelCall")
  /\ UNCHANGED <<variant, cycle, query, idx, attempts, allServerInfos, leaked,
                 llmText, serverInfo, confirm, calls, reported, blocks>>
  /\ UNCHANGED allTools
  /\ modelCalls' = Append(modelCalls, "answer")
  /\ UNCHANGED response
  /\ UNCHANGED finalText
  /\ UNCHANGED answer
  /\ UNCHANGED closeCalls
  /\ UNCHANGED bestScore
  /\ UNCHANGED message

\* The answer model call returns: prompt-derived mode returns the answer,
\* native mode goes on with the remaining blocks.
SynthesizeReturns ==
  /\ toolResult' = NoResult
  /\ content' = <<>>
  /\ pc = "Synthesizing"
  /\ ContinueBlocks(blocks)
  /\ IF variant = "gemini"
     THEN /\ \E answerText \in AnswerTexts :
               answer' = <<"[answer]", "\n">> \o trim(answerText)
          /\ UNCHANGED finalText
     ELSE /\ \E first \in FirstBlockTypes :
               finalText' =
                 pushTexts(Append(finalText,
                                  IF first = "text" THEN <<"a">> ELSE <<>>),
                           blocks, Len(response))
          /\ answer' = IF skipText(blocks) = <<>>
                       THEN join(finalText', <<"\n">>)
                       ELSE answer
  /\ UNCHANGED <<variant, cycle, query, idx, attempts, allServerInfos, leaked,
                 llmText, serverInfo, confirm, reported>>
  /\ UNCHANGED allTools
  /\ modelCalls' = Append(modelCalls, "answer")
  /\ UNCHANGED response
  /\ UNCHANGED closeCalls
  /\ UNCHANGED bestScore
  /\ UNCHANGED message

Next ==
  \/ ReadQuery
  \/ Discover
  \/ SelectNoBackend
  \/ SelectPrompt
  \/ SelectModelFails
  \/ SelectReply
  \/ Confirm
  \/ InvokeModelFails
  \/ GenerateArgs
  \/ NativeResponse
  \/ CallToolFails
  \/ CallToolReturns
  \/ SynthesizeFails
  \/ SynthesizeReturns

Spec == Init /\ [][Next]_vars

\* ================================================= single-backend variant
\* One backend named on the command line, a chat loop of queries in native
\* mode, cleanup in main's finally block. The connection is conn[1]; the
\* locator is serverInfo.path, this.tools is serverInfo.tools.

\* State of the multi-backend controllers that this variant does not have.
multiOnly ==
  <<cycle, idx, attempts, allServerInfos, leaked, llmText, confirm, reported,
    allTools, toolResult, content, closeCalls, bestScore>>

\* The variants whose main runs MCPClient.chatLoop.
ChatVariants == {"single", "score"}

\* process.argv[2]: absent (""), or a locator.
Locators == {"", "p1", "p2", "p3"}

\* Lines the user can type at the chat loop's prompt.
Messages == {<<"q1">>, <<"quit">>, <<"QUIT">>, <<"quit", " ">>, <<>>}

SingleInit ==
  /\ variant = "single"
  /\ pc = "Start"
  /\ cycle = 0
  /\ query = <<>>
  /\ idx = 1
  /\ attempts = <<>>
  /\ allServerInfos = <<>>
  /\ conn = [i \in 1..NumCandidates |-> "none"]
  /\ leaked = 0
  /\ llmText = <<>>
  /\ \E locator \in Locators :
       serverInfo = [NoServerInfo EXCEPT !.path = locator, !.client = 1]
  /\ confirm = <<>>
  /\ calls = <<>>
  /\ lastError = "none"
  /\ reported = FALSE
  /\ blocks = <<>>
  /\ ended = "none"
  /\ allTools = <<>>
  /\ modelCalls = <<>>
  /\ response = <<>>
  /\ finalText = <<>>
  /\ answer = <<>>
  /\ toolResult = NoResult
  /\ content = <<>>
  /\ closeCalls = <<>>
  /\ bestScore = 0 - 1
  /\ message = <<>>

\* main: if (process.argv.length < 3) { console.log("Usage: ..."); return; }
Usage ==
  /\ pc = "Start"
  /\ serverInfo.path = ""
  /\ pc' = "Returned"
  /\ ended' = "usage"
  /\ UNCHANGED <<variant, query, conn, serverInfo, calls, lastError, blocks,
                 modelCalls, response, finalText, answer>>
  /\ UNCHANGED multiOnly
  /\ UNCHANGED message

\* connectToServer: the extension is validated, the transport is connected,
\* the tools are listed; every failure is logged and thrown again, which
\* takes main to its finally block.
connectToServer ==
  /\ pc = "Start"
  /\ serverInfo.path # ""
  /\ IF Extension(serverInfo.path) \notin {".js", ".py"}
     THEN /\ lastError' = "Validation"
          /\ ended' = "connectFailed"
          /\ pc' = "Cleanup"
          /\ UNCHANGED <<conn, serverInfo>>
     ELSE \E outcome \in GetServerToolsOutcomes :
            /\ conn' = getServerTools(conn, 1, outcome)
            /\ IF outcome = "ok"
               THEN /\ serverInfo' =
                         [serverInfo EXCEPT !.tools = AdvertisedTools(1)]
                    /\ pc' = "AwaitingQuery"
                    /\ UNCHANGED <<lastError, ended>>
               ELSE /\ lastError' = outcome
                    /\ ended' = "connectFailed"
                    /\ pc' = "Cleanup"
                    /\ UNCHANGED serverInfo
  /\ UNCHANGED <<variant, query, calls, blocks, modelCalls, response,
                 finalText, answer>>
  /\ UNCHANGED multiOnly
  /\ UNCHANGED message

\* message.toLowerCase() === "quit"
isQuit(line) == toLowerCase(line) = <<"quit">>

\* chatLoop: a line is read; "quit" in any case leaves the loop, every other
\* line, the empty one included, is passed to processQuery.
ChatLoopRead ==
  /\ pc = "AwaitingQuery"
  /\ variant \in ChatVariants
  /\ \E line \in Messages :
       /\ message' = line
       /\ IF isQuit(line)
          THEN /\ pc' = "Cleanup"
               /\ ended' = "quit"
          ELSE /\ pc' = "Invoking"
               /\ ended' = "none"
  /\ calls' = <<>>
  /\ blocks' = <<>>
  /\ modelCalls' = <<>>
  /\ response' = <<>>
  /\ finalText' = <<>>
  /\ answer' = <<>>
  /\ UNCHANGED <<variant, query, conn, serverInfo, lastError>>
  /\ UNCHANGED multiOnly

\* processQuery throws err: chatLoop's finally closes the readline interface
\* and the error reaches main's finally block.
ThrowToMain(err) ==
  /\ lastError' = err
  /\ pc' = "Cleanup"
  /\ ended' = "threw"

\* Names a tool_use block can carry in this variant.
SingleToolUseNames == {<<serverInfo.tools[1]>>, <<"tx">>}

\* The for loop over the blocks b: it issues callTool for the next tool_use
\* block, or it ends, processQuery returns and chatLoop prints the answer.
ChatContinueBlocks(b) ==
  IF skipText(b) = <<>>
  THEN /\ pc' = "AwaitingQuery"
       /\ ended' = "answered"
       /\ blocks' = <<>>
       /\ UNCHANGED <<calls, lastError>>
  ELSE /\ \E name \in SingleToolUseNames : calls' = Append(calls, name)
       /\ blocks' = Tail(skipText(b))
       /\ pc' = "CallTool"
       /\ UNCHANGED <<lastError, ended>>

\* The first messages.create of processQuery rejects.
ChatModelFails ==
  /\ pc = "Invoking"
  /\ variant \in ChatVariants
  /\ ThrowToMain("ModelCall")
  /\ modelCalls' = Append(modelCalls, "invoke")
  /\ UNCHANGED <<variant, query, conn, serverInfo, calls, blocks, response,
                 finalText, answer>>
  /\ UNCHANGED multiOnly
  /\ UNCHANGED message

\* The first messages.create of processQuery returns.
ChatResponse ==
  /\ pc = "Invoking"
  /\ variant \in ChatVariants
  /\ \E blks \in ResponseContents :
       /\ ChatContinueBlocks(blks)
       /\ response' = blks
       /\ finalText' = pushTexts(<<>>, blks, Len(blks))
       /\ answer' = IF skipText(blks) = <<>>
                    THEN join(finalText', <<"\n">>)
                    ELSE answer
  /\ modelCalls' = Append(modelCalls, "invoke")
  /\ UNCHANGED <<variant, query, conn, serverInfo>>
  /\ UNCHANGED multiOnly
  /\ UNCHANGED message

\* this.mcp.callTool rejects.
ChatCallToolFails ==
  /\ pc = "CallTool"
  /\ variant \in ChatVariants
  /\ ThrowToMain("ToolInvocation")
  /\ UNCHANGED <<variant, query, conn, serverInfo, calls, blocks, modelCalls,
                 response, finalText, answer>>
  /\ UNCHANGED multiOnly
  /\ UNCHANGED message

\* this.mcp.callTool returns: the call is noted in finalText and the second
\* messages.create is issued.
ChatCallToolReturns ==
  /\ pc = "CallTool"
  /\ variant \in ChatVariants
  /\ pc' = "Synthesizing"
  /\ finalText' = Append(finalText,
                         <<"[Calling tool">> \o calls[Len(calls)] \o <<"]">>)
  /\ UNCHANGED <<variant, query, conn, serverInfo, calls, lastError, blocks,
                 ended, modelCalls, response, answer>>
  /\ UNCHANGED multiOnly
  /\ UNCHANGED message

\* The second messages.create rejects.
ChatSynthesizeFails ==
  /\ pc = "Synthesizing"
  /\ variant \in ChatVariants
  /\ ThrowToMain("ModelCall")
  /\ modelCalls' = Append(modelCalls, "answer")
  /\ UNCHANGED <<variant, query, conn, serverInfo, calls, blocks, response,
                 finalText, answer>>
  /\ UNCHANGED multiOnly
  /\ UNCHANGED message

\* The second messages.create returns: its first block's text is pushed and
\* the loop goes on with the remaining blocks.
ChatSynthesizeReturns ==
  /\ pc = "Synthesizing"
  /\ variant \in ChatVariants
  /\ ChatContinueBlocks(blocks)
  /\ \E first \in FirstBlockTypes :
       finalText' =
         pushTexts(Append(finalText, IF first = "text" THEN <<"a">> ELSE <<>>),
                   blocks, Len(response))
  /\ answer' = IF skipText(blocks) = <<>>
               THEN join(finalText', <<"\n">>)
               ELSE answer
  /\ modelCalls' = Append(modelCalls, "answer")
  /\ UNCHANGED <<variant, query, conn, serverInfo, response>>
  /\ UNCHANGED multiOnly
  /\ UNCHANGED message

\* Client.close(): an open connection is closed (process and channel are
\* released); a connection that was never opened or is closed already is
\* left as it is.
close(st) == IF st = "open" THEN "closed" ELSE st

\* MainFinally without the cleanup: the process exits at once.
MainFinally_exitWithoutCleanup ==
  /\ pc = "Cleanup"
  /\ pc' = "Exited"
  /\ UNCHANGED <<variant, query, conn, serverInfo, calls, lastError, blocks,
                 ended, modelCalls, response, finalText, answer>>
  /\ UNCHANGED multiOnly
  /\ UNCHANGED message

\* main: finally { await mcpClient.cleanup(); process.exit(0); }
MainFinally ==
  /\ pc = "Cleanup"
  /\ conn' = [conn EXCEPT ![serverInfo.client] = close(@)]
  /\ pc' = "Exited"
  /\ UNCHANGED <<variant, query, serverInfo, calls, lastError, blocks, ended,
                 modelCalls, response, finalText, answer>>
  /\ UNCHANGED multiOnly
  /\ UNCHANGED message

SingleNext ==
  \/ Usage
  \/ connectToServer
  \/ ChatLoopRead
  \/ ChatModelFails
  \/ ChatResponse
  \/ ChatCallToolFails
  \/ ChatCallToolReturns
  \/ ChatSynthesizeFails
  \/ ChatSynthesizeReturns
  \/ MainFinally

SingleSpec == SingleInit /\ [][SingleNext]_vars

\* ================================================ substring-scoring variant
\* main reads a first query, selectServerScript scans the candidates and
\* keeps the one with the highest score, then main runs chatLoop on it and
\* cleans up in its finally block. best is serverInfo (NoServerInfo = null).

\* First queries the user can type; a query includes a tool name when the
\* name is one of its tokens.
ScoreQueries ==
  {<<"q1">>, <<"ta">>, <<"tb">>, <<"tc">>, <<"ta", " ", "tc">>, <<>>}

\* tool.description as the backends report it; <<>> is a missing description.
Description(tool) ==
  CASE tool = "ta" -> <<"about", " ", "q1">>
    [] tool = "tb" -> <<"d">>
    [] OTHER -> <<>>

\* String.prototype.includes
includes(s, sub) ==
  \E i \in 0..(Len(s) - Len(sub)) : SubSeq(s, i + 1, i + Len(sub)) = sub

\* tools.reduce((acc, tool) => acc + nameMatch + descMatch, 0)
RECURSIVE scoreOf(_, _)
scoreOf(tools, q) ==
  IF tools = <<>> THEN 0
  ELSE LET tool == tools[Len(tools)]
           nameMatch == IF includes(q, <<tool>>) THEN 2 ELSE 0
           descMatch == IF Description(tool) # <<>>
                             /\ includes(Description(tool), q)
                        THEN 1 ELSE 0
       IN  scoreOf(SubSeq(tools, 1, Len(tools) - 1), q) + nameMatch + descMatch

\* better that also replaces best on an equal score.
better_orEqual(score, currentBest) == score >= currentBest

\* if (score > bestScore)
better(score, currentBest) == score > currentBest

\* What a call of client.close() does: it closes the connection, or it
\* throws, with the connection released or not.
CloseOutcomes == {"closed", "threwClosed", "threwOpen"}
closeThrows(outcome) == outcome # "closed"
closeWith(st, outcome) == IF outcome = "threwOpen" THEN st ELSE "closed"

ScoreInit ==
  /\ variant = "score"
  /\ pc = "FirstQuery"
  /\ cycle = 0
  /\ query = <<>>
  /\ idx = 1
  /\ attempts = <<>>
  /\ allServerInfos = <<>>
  /\ conn = [i \in 1..NumCandidates |-> "none"]
  /\ leaked = 0
  /\ llmText = <<>>
  /\ serverInfo = NoServerInfo
  /\ confirm = <<>>
  /\ calls = <<>>
  /\ lastError = "none"
  /\ reported = FALSE
  /\ blocks = <<>>
  /\ ended = "none"
  /\ allTools = <<>>
  /\ modelCalls = <<>>
  /\ response = <<>>
  /\ finalText = <<>>
  /\ answer = <<>>
  /\ toolResult = NoResult
  /\ content = <<>>
  /\ closeCalls = <<>>
  /\ bestScore = 0 - 1
  /\ message = <<>>

\* State that the scoring variant's selectServerScript and main do not have.
scoreUnused ==
  <<variant, cycle, allServerInfos, leaked, llmText, confirm, reported,
    allTools, toolResult, content, calls, blocks, modelCalls, response,
    finalText, answer, message>>

\* main: const query = await rl.question(...)
ReadFirstQuery ==
  /\ pc = "FirstQuery"
  /\ \E q \in ScoreQueries : query' = q
  /\ pc' = "Discovering"
  /\ UNCHANGED <<idx, attempts, conn, serverInfo, lastError, ended,
                 closeCalls, bestScore>>
  /\ UNCHANGED scoreUnused

\* One iteration of selectServerScript's for loop: getServerTools, the score,
\* then either the candidate becomes best (and the previous best is closed)
\* or it is closed. Whatever is thrown inside the iteration, by getServerTools
\* or by a close, is caught and the loop goes on.
ScanCandidate ==
  /\ pc = "Discovering"
  /\ idx <= NumCandidates
  /\ \E outcome \in GetServerToolsOutcomes, closing \in CloseOutcomes :
       LET opened == getServerTools(conn, idx, outcome)
           score == scoreOf(AdvertisedTools(idx), query)
           found == [path |-> SERVER_CANDIDATES[idx],
                     tools |-> AdvertisedTools(idx),
                     client |-> idx, selectedTool |-> ""]
       IN  IF outcome # "ok"
           THEN /\ conn' = opened
                /\ attempts' = Append(attempts,
                                      <<SERVER_CANDIDATES[idx], outcome, "none">>)
                /\ UNCHANGED <<serverInfo, bestScore, closeCalls>>
           ELSE IF better(score, bestScore) /\ serverInfo = NoServerInfo
           THEN /\ conn' = opened
                /\ serverInfo' = found
                /\ bestScore' = score
                /\ attempts' = Append(attempts,
                                      <<SERVER_CANDIDATES[idx], outcome, "none">>)
                /\ UNCHANGED closeCalls
           ELSE IF better(score, bestScore)
           THEN /\ conn' = [opened EXCEPT ![serverInfo.client] =
                                             closeWith(@, closing)]
                /\ closeCalls' = Append(closeCalls, serverInfo.client)
                /\ attempts' = Append(attempts,
                                      <<SERVER_CANDIDATES[idx], outcome, closing>>)
                /\ IF closeThrows(closing)
                   THEN UNCHANGED <<serverInfo, bestScore>>
                   ELSE /\ serverInfo' = found
                        /\ bestScore' = score
           ELSE /\ conn' = [opened EXCEPT ![idx] = closeWith(@, closing)]
                /\ closeCalls' = Append(closeCalls, idx)
                /\ attempts' = Append(attempts,
                                      <<SERVER_CANDIDATES[idx], outcome, closing>>)
                /\ UNCHANGED <<serverInfo, bestScore>>
  /\ idx' = idx + 1
  /\ UNCHANGED <<pc, query, lastError, ended>>
  /\ UNCHANGED scoreUnused

\* if (!best) throw new Error("No suitable MCP server found."): main awaits
\* selectServerScript outside its try block, so the process ends.
ScanFindsNothing ==
  /\ pc = "Discovering"
  /\ idx = NumCandidates + 1
  /\ serverInfo = NoServerInfo
  /\ lastError' = "NoBackend"
  /\ ended' = "threw"
  /\ pc' = "Terminated"
  /\ UNCHANGED <<query, idx, attempts, conn, serverInfo, closeCalls, bestScore>>
  /\ UNCHANGED scoreUnused

\* return best: main builds the MCPClient and chatLoop prompts for a line.
ScanReturnsBest ==
  /\ pc = "Discovering"
  /\ idx = NumCandidates + 1
  /\ serverInfo # NoServerInfo
  /\ ended' = "selected"
  /\ pc' = "AwaitingQuery"
  /\ UNCHANGED <<query, idx, attempts, conn, serverInfo, lastError,
                 closeCalls, bestScore>>
  /\ UNCHANGED scoreUnused

ScoreNext ==
  \/ ReadFirstQuery
  \/ ScanCandidate
  \/ ScanFindsNothing
  \/ ScanReturnsBest
  \/ ChatLoopRead
  \/ ChatModelFails
  \/ ChatResponse
  \/ ChatCallToolFails
  \/ ChatCallToolReturns
  \/ ChatSynthesizeFails
  \/ ChatSynthesizeReturns
  \/ MainFinally

ScoreSpec == ScoreInit /\ [][ScoreNext]_vars

\* ================================================================== claims
InvocationStates == {"Invoking", "CallTool", "Synthesizing"}

\* C1: when selectServerScript returns successfully (the confirmation prompt
\* is about to be shown), of the connections it opened exactly the selected
\* one is open.
C1_OnlySelectedOpenAfterSelection ==
  pc = "AwaitingConfirmation" => OpenConns = {serverInfo.client}

\* C2: when selection fails after at least one backend was discovered (parse
\* error, unknown backend, unknown tool), no connection opened during
\* discovery is open when control is back in main.
C2_NoOpenConnectionAfterSelectionFailure ==
  (/\ pc = "AwaitingQuery"
   /\ ended = "selectError"
   /\ lastError \in {"SelectionParse", "UnknownBackend", "UnknownTool"})
  => OpenConns = {}

\* C3: when no candidate completes discovery, selectServerScript fails with
\* the no-backend error and no connection or spawned process stays open.
C3_NoOpenConnectionWhenNoBackend ==
  (/\ pc \in {"AwaitingQuery", "Terminated"}
   /\ ended # "none"
   /\ \A n \in 1..Len(attempts) : attempts[n][2] # "ok"
   /\ Len(attempts) = NumCandidates)
  => (lastError = "NoBackend" /\ OpenConns = {})

\* C4: a cycle that reached invocation ends, normally or by an error of
\* processQuery, with the selected connection closed.
C4_SelectedClosedWhenInvocationCycleEnds ==
  (pc \in {"AwaitingQuery", "Terminated"} /\ ended \in {"answered", "threw"})
  => (/\ serverInfo.client \in 1..NumCandidates
      /\ conn[serverInfo.client] = "closed")

C4_Witness ==
  /\ ended = "threw"
  /\ lastError = "ToolInvocation"
  /\ calls # <<>>
  /\ conn[serverInfo.client] = "closed"

\* C5: when the user declines at the confirmation prompt, the selected
\* connection is closed before main awaits the next query.
C5_SelectedClosedAfterDecline ==
  (pc = "AwaitingQuery" /\ ended = "declined")
  => conn[serverInfo.client] = "closed"

\* C6 as stated: every confirmation input other than the exact literal "ok"
\* (case variants and surrounding white space included) leads to no callTool
\* in that cycle.
C6_OnlyExactLiteralConfirms ==
  (pc \in InvocationStates \/ calls # <<>>) => confirm = <<"ok">>

\* C6 as amended: every confirmation input that is not "ok" after trimming
\* and lower-casing leads to no callTool in that cycle and takes main back
\* to awaiting the next query.
C6_NonAffirmativeDeclines ==
  /\ [][(pc = "AwaitingConfirmation"
         /\ toLowerCase(trim(confirm')) # <<"ok">>)
        => (pc' = "AwaitingQuery" /\ calls' = <<>>)]_vars
  /\ []((pc \in InvocationStates \/ calls # <<>>)
        => toLowerCase(trim(confirm)) = <<"ok">>)

C6_Witness ==
  /\ pc = "AwaitingQuery"
  /\ ended = "declined"
  /\ confirm = <<"ok", " ", "no">>
  /\ calls = <<>>

\* C7: a failure during invocation or answer synthesis is caught by main and
\* the process goes on to await the next query.
C7_InvocationFailureIsCaught ==
  (/\ ended = "threw"
   /\ lastError \in {"ArgumentSynthesis", "InvalidJson", "ToolInvocation",
                     "ModelCall"})
  => pc = "AwaitingQuery"

\* C8: every failure of discovery or selection is reported and takes main
\* back to awaiting the next query, never on to the confirmation or the
\* invocation, and never ends the process.
C8_SelectionFailureReturnsToAwaitingQuery ==
  [][(pc \in {"Discovering", "Selecting"} /\ lastError' # "none")
     => (/\ pc' = "AwaitingQuery"
         /\ reported'
         /\ lastError' \in {"NoBackend", "ModelCall", "SelectionParse",
                            "UnknownBackend", "UnknownTool"}
         /\ calls' = <<>>)]_vars

C8_Witness ==
  /\ pc = "AwaitingQuery"
  /\ ended = "selectError"
  /\ lastError = "UnknownTool"
  /\ reported

\* C9: whenever a callTool is in flight, exactly one backend connection is
\* open in the process, the selected one of the current cycle.
C9_OneOpenConnectionAtCallTool ==
  pc = "CallTool" => (OpenConns = {serverInfo.client} /\ OpenCount = 1)

\* C10: discovery calls getServerTools for every configured candidate once,
\* in the configured order, whatever failed before; allServerInfos holds
\* exactly the candidates that succeeded, in that order.
DiscoveryOver ==
  \/ pc = "Discovering" /\ idx = NumCandidates + 1
  \/ pc \in {"Selecting", "AwaitingConfirmation"}
  \/ ended = "selectError"

C10_DiscoveryAttemptsEveryCandidate ==
  /\ \A n \in 1..Len(attempts) : attempts[n][1] = SERVER_CANDIDATES[n]
  /\ DiscoveryOver =>
       /\ Len(attempts) = NumCandidates
       /\ LET ok == SelectSeq(attempts, LAMBDA a : a[2] = "ok")
          IN  /\ Len(allServerInfos) = Len(ok)
              /\ \A n \in 1..Len(ok) : allServerInfos[n].path = ok[n][1]

C10_Witness ==
  /\ pc = "Selecting"
  /\ attempts[1][2] = "listToolsFailed"
  /\ attempts[NumCandidates][2] = "ok"
  /\ Len(allServerInfos) < NumCandidates

\* ---------------------------------------------------------------- C11
\* Position of a locator in the candidate list, 0 when it is not a candidate.
CandidateIndex(path) ==
  IF \E i \in 1..NumCandidates : SERVER_CANDIDATES[i] = path
  THEN CHOOSE i \in 1..NumCandidates : SERVER_CANDIDATES[i] = path
  ELSE 0

\* Position of a tool in the list backend i reports, 0 when it is not there.
ReportedIndex(i, name) ==
  IF i \in 1..NumCandidates
       /\ \E t \in 1..Len(AdvertisedTools(i)) : AdvertisedTools(i)[t] = name
  THEN CHOOSE t \in 1..Len(AdvertisedTools(i)) : AdvertisedTools(i)[t] = name
  ELSE 0

\* The candidates whose discovery succeeded in this cycle.
Reachable ==
  {i \in 1..Len(attempts) : attempts[i][2] = "ok"}

\* C11: when the selection prompt is built, its flat tool list holds exactly
\* the (backend, tool) pairs of the backends that were reachable in this
\* cycle, each pair once, ordered by backend position in the candidate list
\* and then by the order in which the backend reported its tools.
C11_PromptListsToolsOfReachableBackends ==
  pc = "Selecting" =>
    /\ \A k \in 1..Len(allTools) :
         /\ CandidateIndex(allTools[k][1]) \in Reachable
         /\ ReportedIndex(CandidateIndex(allTools[k][1]), allTools[k][2]) # 0
    /\ \A i \in Reachable : \A t \in 1..Len(AdvertisedTools(i)) :
         Cardinality({k \in 1..Len(allTools) :
            allTools[k] = <<SERVER_CANDIDATES[i], AdvertisedTools(i)[t]>>}) = 1
    /\ \A k, l \in 1..Len(allTools) :
         k < l =>
           LET ik == CandidateIndex(allTools[k][1])
               il == CandidateIndex(allTools[l][1])
           IN \/ ik < il
              \/ /\ ik = il
                 /\ ReportedIndex(ik, allTools[k][2])
                      < ReportedIndex(il, allTools[l][2])

\* Two backends that advertise a common tool name are both reachable and the
\* prompt is being built.
C11_Witness ==
  /\ pc = "Selecting"
  /\ Cardinality(Reachable) >= 2
  /\ \E k, l \in 1..Len(allTools) :
       k # l /\ allTools[k][2] = allTools[l][2]

\* ---------------------------------------------------------------- C12
\* The step in which the selection model call returns a reply.
SelectionReplyStep ==
  /\ pc = "Selecting"
  /\ pc' # "Selecting"
  /\ lastError' # "ModelCall"

\* A descriptor with this locator was discovered.
KnownBackend(p) ==
  \E k \in 1..Len(allServerInfos) : <<allServerInfos[k].path>> = p

\* A discovered descriptor with this locator reports a tool of this name.
OwnsTool(p, n) ==
  \E k \in 1..Len(allServerInfos) :
    /\ <<allServerInfos[k].path>> = p
    /\ \E t \in 1..Len(allServerInfos[k].tools) :
         <<allServerInfos[k].tools[t]>> = n

\* C12: for a well-formed selection reply, selection succeeds only if the
\* parsed backend id is the id of a discovered descriptor that reports a tool
\* of the parsed name; with no such descriptor it fails with the
\* unknown-backend error (checked first), with a descriptor that lacks the
\* tool it fails with the unknown-tool error; on success the returned tool is
\* one of the returned backend's tools.
C12_SelectionValidatedAgainstDiscovery ==
  [][(SelectionReplyStep /\ SelectionMatchPositions(llmText') # {}) =>
       LET m == matchSelection(llmText')
           p == trim(m.g1)
           n == trim(m.g2)
       IN  /\ ~KnownBackend(p) =>
                /\ lastError' = "UnknownBackend"
                /\ pc' = "AwaitingQuery"
                /\ serverInfo' = NoServerInfo
           /\ (KnownBackend(p) /\ ~OwnsTool(p, n)) =>
                /\ lastError' = "UnknownTool"
                /\ pc' = "AwaitingQuery"
                /\ serverInfo' = NoServerInfo
           /\ pc' = "AwaitingConfirmation" =>
                /\ OwnsTool(p, n)
                /\ <<serverInfo'.path>> = p
                /\ <<serverInfo'.selectedTool>> = n
                /\ \E t \in 1..Len(serverInfo'.tools) :
                     serverInfo'.tools[t] = serverInfo'.selectedTool
           /\ OwnsTool(p, n) => pc' = "AwaitingConfirmation"]_vars

\* Two backends were discovered, the reply names the second one and a tool
\* that both advertise, and the selection was returned.
C12_Witness ==
  /\ pc = "AwaitingConfirmation"
  /\ Len(allServerInfos) = 2
  /\ serverInfo.path = allServerInfos[2].path
  /\ hasTool(allServerInfos[1], <<serverInfo.selectedTool>>)

\* ---------------------------------------------------------------- C13
\* C13: a selection reply that does not match "path=<backend>, name=<tool>"
\* fails with the selection-parse error: no selection is returned and no
\* connection is handed to the confirmation step.
C13_MalformedReplyIsParseError ==
  [][(SelectionReplyStep /\ SelectionMatchPositions(llmText') = {}) =>
       /\ lastError' = "SelectionParse"
       /\ serverInfo' = NoServerInfo
       /\ pc' = "AwaitingQuery"]_vars

\* A reply that names a backend and a tool but lacks the separating comma was
\* rejected.
C13_Witness ==
  /\ ended = "selectError"
  /\ lastError = "SelectionParse"
  /\ llmText = <<"path=", "p1", " ", "name=", "ta">>

\* ---------------------------------------------------------------- C14
\* C14: a cycle issues at most one callTool, whatever the model response is,
\* in prompt-derived mode and in native mode (a native response can carry
\* several tool_use blocks).
C14_AtMostOneCallToolPerCycle ==
  Len(calls) <= 1

\* ---------------------------------------------------------------- C15
\* The step in which the argument-synthesis model call of prompt-derived mode
\* returns a reply.
ArgumentReplyStep ==
  /\ pc = "Invoking"
  /\ variant = "gemini"
  /\ pc' # "Invoking"
  /\ lastError' # "ModelCall"

\* C15: in prompt-derived mode, a reply of the argument-synthesis call that
\* does not match "name=<tool>, args=<JSON object>", or whose arguments are
\* not valid JSON, fails the invocation with an argument-synthesis error: no
\* callTool is issued and no answer-synthesis model call is made.
C15_BadArgumentReplyIssuesNoCall ==
  [][(/\ ArgumentReplyStep
      /\ \/ ArgMatchPositions(llmText') = {}
         \/ ~IsJsonObject(matchToolCall(llmText').g2)) =>
       /\ lastError' \in {"ArgumentSynthesis", "InvalidJson"}
       /\ pc' \notin {"CallTool", "Synthesizing"}
       /\ calls' = <<>>
       /\ \A k \in 1..Len(modelCalls') : modelCalls'[k] # "answer"]_vars

\* The reply named a tool and carried arguments that are not valid JSON, and
\* the invocation failed.
C15_Witness ==
  /\ variant = "gemini"
  /\ lastError = "InvalidJson"
  /\ llmText = <<"name=", "ta", ",", " ", "args=", "{", "bad", "}">>
  /\ calls = <<>>

\* ---------------------------------------------------------------- C16
\* The step in which native mode's first model call returns a response that
\* holds text blocks only.
TextOnlyResponseStep ==
  /\ pc = "Invoking"
  /\ variant = "anthropic"
  /\ pc' \notin {"Invoking", "Terminated"}
  /\ \A k \in 1..Len(response') : response'[k] = "text"

\* The texts of the blocks of a text-only response of n blocks, one per line.
TextLines(n) ==
  [k \in 1..(IF n = 0 THEN 0 ELSE 2 * n - 1) |->
     IF k % 2 = 1 THEN TextOf((k + 1) \div 2) ELSE "\n"]

\* C16: in native mode, when the first model response holds plain text only,
\* processQuery returns that text as the final answer, issues no callTool and
\* makes no second model call.
C16_TextOnlyResponseIsTheAnswer ==
  [][TextOnlyResponseStep =>
       /\ pc' = "AwaitingQuery"
       /\ ended' = "answered"
       /\ answer' = TextLines(Len(response'))
       /\ calls' = <<>>
       /\ Cardinality({k \in 1..Len(modelCalls') :
                         modelCalls'[k] # "select"}) = 1]_vars

\* A response of two text blocks was returned as the answer.
C16_Witness ==
  /\ variant = "anthropic"
  /\ ended = "answered"
  /\ response = <<"text", "text">>
  /\ answer = <<"t1", "\n", "t2">>
  /\ calls = <<>>

\* ---------------------------------------------------------------- C17
\* The callTool result of prompt-derived mode was normalized and is about to
\* go into the answer prompt.
Normalized ==
  pc = "Synthesizing" /\ variant = "gemini"

\* The items of the result that are text content.
TextItems ==
  SelectSeq(toolResult.items, LAMBDA item : item.type = "text")

\* C17 as stated: for a sequence of typed items the pretty-printed
\* serialization is used if and only if the sequence holds no text item, so a
\* sequence whose text items all have empty text yields the joined text.
C17_SerializedIffNoTextItem ==
  (Normalized /\ toolResult.kind = "array") =>
    (content = stringify(toolResult) <=> TextItems = <<>>)

\* C17, amended: for a sequence of typed items the output is the texts of its
\* text items (type text, text a string), in order, joined by a blank line,
\* unless that joined text is empty (no such item, or one such item and its
\* text is empty): then it is the pretty-printed serialization of the whole
\* sequence. A single object is pretty-printed, a plain text passes unchanged.
C17_NormalizedContent ==
  Normalized =>
    LET texts == textsOf(toolResult.items)
    IN  /\ toolResult.kind = "array" =>
             IF texts = <<>> \/ texts = << <<>> >>
             THEN content = stringify(toolResult)
             ELSE /\ content = join(texts, <<"\n\n">>)
                  /\ SelectSeq(content, LAMBDA t : t # "\n\n")
                       = join(texts, <<>>)
                  /\ Len(SelectSeq(content, LAMBDA t : t = "\n\n"))
                       = Len(texts) - 1
        /\ toolResult.kind = "object" => content = stringify(toolResult)
        /\ toolResult.kind = "string" => content = toolResult.value
        /\ toolResult = ArrayResult(<<TextItem(<<"A">>), TextItem(<<"B">>)>>)
             => content = <<"A", "\n\n", "B">>

\* The result was a sequence whose only text item has an empty text, and the
\* serialization went into the prompt.
C17_Witness ==
  /\ Normalized
  /\ toolResult = ArrayResult(<<ImageItem, TextItem(<<>>)>>)
  /\ content = stringify(toolResult)

\* ---------------------------------------------------------------- C18
\* C18: spawning a backend from a locator whose extension is neither .js nor
\* .py fails with a validation error and starts no process, in discovery's
\* getServerTools as in connectToServer.
C18_UnrecognizedExtensionStartsNoProcess ==
  \A i \in 1..NumCandidates :
    Extension(SERVER_CANDIDATES[i]) \notin {".js", ".py"} =>
      /\ conn[i] = "none"
      /\ \A k \in 1..Len(attempts) :
           attempts[k][1] = SERVER_CANDIDATES[i] => attempts[k][2] # "ok"

C20_QuitSentinelEndsSession ==
  query = "quit" =>
    /\ attempts = <<>>
    /\ modelCalls = <<>>
    /\ calls = <<>>
    /\ pc \in {"AwaitingQuery", "Discovering", "Terminated"}
    /\ pc = "Discovering" => idx = 1

\* ---------------------------------------------------------------- C21
\* C21: in prompt-derived mode every callTool carries the name of the tool
\* that selection chose and the user confirmed, whatever the model replies
\* to the argument-synthesis prompt.
C21_CallToolNamesConfirmedTool ==
  variant = "gemini" =>
    \A k \in 1..Len(calls) : calls[k] = <<serverInfo.selectedTool>>

\* ---------------------------------------------------------------- C22
\* Position of a state of main in the cycle AwaitingQuery, Discovering,
\* Selecting, AwaitingConfirmation, Invoking, Synthesizing; the wait for
\* callTool belongs to Invoking.
StateRank(p) ==
  CASE p = "AwaitingQuery" -> 0
    [] p = "Discovering" -> 1
    [] p = "Selecting" -> 2
    [] p = "AwaitingConfirmation" -> 3
    [] p = "Invoking" -> 4
    [] p = "CallTool" -> 4
    [] p = "Synthesizing" -> 5
    [] OTHER -> 6

\* C22: within a cycle the controller's states occur only in the order
\* AwaitingQuery, Discovering, Selecting, AwaitingConfirmation, Invoking,
\* Synthesizing, Done: every change of state moves forward in that order,
\* goes back to AwaitingQuery for the next cycle, or ends the process.
C22_StatesOccurInOrder ==
  [][pc' # pc =>
       \/ StateRank(pc') > StateRank(pc)
       \/ pc = "Invoking" /\ pc' = "CallTool"
       \/ pc' = "AwaitingQuery"]_vars

\* ---------------------------------------------------------------- C23
\* The close loop of the model-selection variants, where a close that throws
\* makes selectServerScript throw: when it returns a selection, it has called
\* close exactly once on every discovered descriptor that is not the selected
\* one, and not at all on the selected one.
CloseLoop_OncePerUnselected ==
  pc = "AwaitingConfirmation" =>
    /\ \A k \in 1..Len(allServerInfos) :
         Cardinality({j \in 1..Len(closeCalls) :
                        closeCalls[j] = allServerInfos[k].client})
           = IF allServerInfos[k].path = serverInfo.path THEN 0 ELSE 1
    /\ \A j \in 1..Len(closeCalls) :
         \E k \in 1..Len(allServerInfos) :
           closeCalls[j] = allServerInfos[k].client
    /\ conn[serverInfo.client] = "open"

\* Two backends were discovered and one of them was selected.
CloseLoop_Witness ==
  /\ pc = "AwaitingConfirmation"
  /\ Len(allServerInfos) = 2
  /\ Len(closeCalls) = 1

\* ---------------------------------------------------------------- C24
\* A step that issues the selection model call.
SelectionModelCall ==
  /\ Len(modelCalls') = Len(modelCalls) + 1
  /\ modelCalls'[Len(modelCalls')] = "select"

\* C24: a run of selectServerScript calls the language model at most once,
\* only after the discovery of every candidate has finished, and not at all
\* when no backend was discovered.
C24_OneSelectionModelCallAfterDiscovery ==
  [][SelectionModelCall =>
       /\ pc = "Selecting"
       /\ idx = NumCandidates + 1
       /\ Len(attempts) = NumCandidates
       /\ allServerInfos # <<>>
       /\ \A k \in 1..Len(modelCalls) : modelCalls[k] # "select"]_vars

\* Every candidate but the last one failed, and the model was asked once.
C24_Witness ==
  /\ Len(attempts) = NumCandidates
  /\ \A i \in 1..(NumCandidates - 1) : attempts[i][2] # "ok"
  /\ Len(allServerInfos) = 1
  /\ modelCalls = <<"select">>

\* ---------------------------------------------------------------- C25
\* selectServerScript of the scoring variant has just returned a descriptor.
ScanReturned ==
  variant = "score" /\ pc = "AwaitingQuery" /\ ended = "selected"

\* C25: in the substring-scoring variant, when selectServerScript returns a
\* descriptor, that descriptor's connection is open and the connection of
\* every other candidate that was connected during the scan is closed,
\* whatever spawn, listTools and close failures occurred.
C25_OnlyReturnedBackendOpen ==
  ScanReturned =>
    /\ conn[serverInfo.client] = "open"
    /\ \A i \in 1..NumCandidates :
         i # serverInfo.client => conn[i] # "open"

\* ---------------------------------------------------------------- C26
\* No close() threw during the scan.
NoCloseFailed ==
  \A k \in 1..Len(attempts) : attempts[k][3] \in {"none", "closed"}

\* The candidates whose getServerTools succeeded during the scan.
Scanned ==
  {i \in 1..Len(attempts) : attempts[i][2] = "ok"}

\* C26: in the substring-scoring variant, when no close fails,
\* selectServerScript returns the reachable candidate with the highest
\* score, the earliest one in the configured order among equals; it throws
\* the no-backend error exactly when no candidate is reachable, so a
\* reachable candidate of score 0 is returned.
C26_ReturnsEarliestHighestScore ==
  (variant = "score" /\ NoCloseFailed) =>
    /\ ScanReturned =>
         /\ serverInfo.client \in Scanned
         /\ \A j \in Scanned :
              LET mine == scoreOf(AdvertisedTools(serverInfo.client), query)
                  other == scoreOf(AdvertisedTools(j), query)
              IN  /\ other <= mine
                  /\ other = mine => serverInfo.client <= j
         /\ (query = <<"tb">> /\ Scanned = 1..NumCandidates)
              => serverInfo.client = 1
         /\ (query = <<"tc">> /\ {1, 2} \subseteq Scanned)
              => serverInfo.client # 1
    /\ (pc = "Terminated" /\ lastError = "NoBackend") => Scanned = {}
    /\ (pc # "Discovering" /\ pc # "FirstQuery" /\ Scanned = {})
         => (pc = "Terminated" /\ lastError = "NoBackend")

\* Two reachable candidates have the same highest score and the first one
\* was returned; no close failed.
C26_Witness ==
  /\ ScanReturned
  /\ NoCloseFailed
  /\ query = <<"tb">>
  /\ {1, 2} \subseteq Scanned
  /\ serverInfo.client = 1

\* ---------------------------------------------------------------- C27
\* C27: the query that drove selection is the first query passed to
\* processQuery on the selected backend, before another line is read from
\* the user.
C27_SelectionQueryIsProcessedFirst ==
  [][(ended = "selected" /\ pc' # pc) =>
       /\ pc' = "Invoking"
       /\ message' = query]_vars

\* ------------------------------------------- C23, scoring variant's scan
\* How many times close was called on client i.
closeCount(i) ==
  Cardinality({k \in 1..Len(closeCalls) : closeCalls[k] = i})

\* C23: when selectServerScript returns a descriptor, close has been
\* executed exactly once for each discovered descriptor that was not
\* selected and never for the selected one.
C23_CloseOncePerUnselectedScan ==
  ScanReturned =>
    \A i \in Scanned :
      closeCount(i) = IF i = serverInfo.client THEN 0 ELSE 1

====
